---- MODULE Spec2Model ----
(***************************************************************************)
(* Model of src/integration/kafka.rs: the rdkafka adapter of convoy.       *)
(*                                                                         *)
(* The consumer side bundles an Arc<StreamConsumer> with values borrowed   *)
(* from it (a MessageStream, a BorrowedMessage) in wrappers whose Drop     *)
(* releases the borrowed component first and the Arc clone second.         *)
(*                                                                         *)
(* Environment (rdkafka, outside the repository):                          *)
(*   - MessageStream::poll_next returns Pending, the next message of some  *)
(*     partition, an error, or the end of the stream;                      *)
(*   - commit_message(msg, CommitMode::Async) either fails at once or      *)
(*     enqueues a commit request for offset msg.offset + 1 on the          *)
(*     message's partition and returns Ok; the request is applied (or      *)
(*     fails) later, in the background.                                    *)
(*   - FutureProducer::send(record, queue_timeout) retries for up to       *)
(*     queue_timeout while the producer's queue is full, then gives up     *)
(*     with a QueueFull error; once the record is queued it resolves when  *)
(*     the delivery report arrives, which queue_timeout does not bound;    *)
(*   - a message may carry several headers with the same key, and a        *)
(*     header value may be absent or hold bytes that are not valid UTF-8.  *)
(*                                                                         *)
(* Spec is the consumer side, SpecSend the producer side (send, make_span  *)
(* and headers() on the message a send wrote), SpecHeaders is headers() on *)
(* any received message.                                                   *)
(***************************************************************************)
EXTENDS Integers, Sequences, FiniteSets

\* ------------------------------------------------------------------ bounds
NumPartitions == 2      \* partitions of the consumed topic
MaxMsgs == 2            \* messages the consumer hands out in one behaviour
MaxPending == 1         \* asynchronous commit requests in flight

Partitions == 0 .. (NumPartitions - 1)

VARIABLES
    bus,        \* KafkaConsumer value: "constructed" | "consumed" | "dropped"
    strong,     \* strong count of the Arc<StreamConsumer>
    released,   \* how many times the StreamConsumer itself was destroyed
    stream,     \* the RdKafkaMessageStream wrapper
    items,      \* the RdKafkaOwnedMessage wrappers, in the order they were yielded
    exhausted,  \* the underlying MessageStream has returned Ready(None)
    fetched,    \* per partition, the next offset the consumer will hand out
    delivered,  \* messages the underlying MessageStream has handed out (history)
    pending,    \* asynchronous commit requests in flight
    committed,  \* per partition, the committed offset
    lastOp,     \* the last operation, the item it was called on (0: none) and
                \* what it returned to its caller
    producer,   \* the KafkaProducer value: its configured topic
    sending,    \* the send() call in progress, if any
    sendResult, \* what the last send() returned to its caller
    span,       \* what the last Producer::make_span resolved
    received,   \* the headers section of the message an item carries
    rawHeaders  \* what the last headers() call on that item returned

\* The consumer side.
cvars == <<bus, strong, released, stream, items, exhausted, fetched,
           delivered, pending, committed, lastOp>>

\* The producer side, and the headers of one received message.
pvars == <<producer, sending, sendResult, span, received, rawHeaders>>

vars == <<cvars, pvars>>

ItemIds == 1 .. Len(items)

Op(op, item, res) == [op |-> op, item |-> item, res |-> res]

\* ----------------------------------------------------------- Arc and its drop
\* Arc::clone: one more strong reference.
ArcClone(n) == n + 1

\* Drop of one Arc clone: the count goes down, and the StreamConsumer is
\* destroyed when it reaches zero.
ArcDropCount(n) == n - 1
ArcDropReleases(n) == IF n - 1 = 0 THEN 1 ELSE 0

\* --------------------------------------------------------------- construction
\* KafkaConsumer::new wraps the consumer in a fresh Arc.
KafkaConsumer_new == [bus |-> "constructed", strong |-> 1]

NoStream == [pc |-> "none", stream |-> FALSE, consumer |-> FALSE, cancelled |-> FALSE]

\* RdKafkaMessageStream::new: clones the Arc and keeps the stream.
RdKafkaMessageStream_new ==
    [pc |-> "live", stream |-> TRUE, consumer |-> TRUE, cancelled |-> FALSE]

\* How many Arc clones RdKafkaMessageStream::new takes.
StreamNewClones(n) == ArcClone(n)

\* RdKafkaOwnedMessage::new: clones the Arc and keeps the message.
RdKafkaOwnedMessage_new(m) ==
    [msg |-> m, pc |-> "live", message |-> TRUE, consumer |-> TRUE, acked |-> FALSE]

ItemNewNoClone(n) == n

\* How many Arc clones RdKafkaOwnedMessage::new takes.
ItemNewClones(n) == ArcClone(n)

ConsumerInit ==
    /\ bus = KafkaConsumer_new.bus
    /\ strong = KafkaConsumer_new.strong
    /\ released = 0
    /\ stream = NoStream
    /\ items = << >>
    /\ exhausted = FALSE
    /\ fetched = [p \in Partitions |-> 0]
    /\ delivered = << >>
    /\ pending = << >>
    /\ committed = [p \in Partitions |-> 0]
    /\ lastOp = Op("new", 0, "Ok")

IntoStreamKeepsBus(n) == StreamNewClones(n)

\* into_stream(self): takes the stream from the consumer, wraps it together
\* with a clone of the Arc, and drops self (the bus's own Arc) on return.
IntoStreamStrong(n) == ArcDropCount(StreamNewClones(n))

into_stream ==
    /\ bus = "constructed"
    /\ bus' = "consumed"
    /\ stream' = RdKafkaMessageStream_new
    /\ strong' = IntoStreamStrong(strong)
    /\ released' = released + (IF IntoStreamStrong(strong) = 0 THEN 1 ELSE 0)
    /\ lastOp' = Op("into_stream", 0, "Ok")
    /\ UNCHANGED <<items, exhausted, fetched, delivered,
                   pending, committed>>
    /\ UNCHANGED pvars

\* A KafkaConsumer that is never turned into a stream is dropped as a plain
\* struct: its Arc goes away.
DropBus ==
    /\ bus = "constructed"
    /\ bus' = "dropped"
    /\ strong' = ArcDropCount(strong)
    /\ released' = released + ArcDropReleases(strong)
    /\ lastOp' = Op("drop_bus", 0, "-")
    /\ UNCHANGED <<stream, items, exhausted, fetched, delivered,
                   pending, committed>>
    /\ UNCHANGED pvars

\* ------------------------------------------------------------------ poll_next
RECURSIVE SumTo(_, _)
SumTo(f, n) == IF n < 0 THEN 0 ELSE f[n] + SumTo(f, n - 1)

TotalFetched == SumTo(fetched, NumPartitions - 1)

\* The messages the consumer can hand out next: the next offset of a
\* partition. Partitions are interchangeable, so a partition gives its first
\* message only after the partitions below it have given one.
NextMessages ==
    IF TotalFetched < MaxMsgs
      THEN {[kind |-> "Item", partition |-> p, offset |-> fetched[p]] :
               p \in {q \in Partitions : IF q = 0 THEN TRUE ELSE fetched[q - 1] > 0}}
      ELSE {}

Outcome(k) == [kind |-> k, partition |-> 0, offset |-> 0]

\* What self.stream.poll_next(cx) may return: Pending, Ready(None),
\* Ready(Some(Err(e))) or Ready(Some(Ok(message))); an underlying stream that
\* has ended stays ended.
InnerPoll ==
    IF exhausted
      THEN {Outcome("None")}
      ELSE {Outcome("Pending"), Outcome("None"), Outcome("Err")} \cup NextMessages

MapOkAlways(r, its) ==
    IF r.kind \in {"Item", "Err"}
      THEN Append(its, RdKafkaOwnedMessage_new([partition |-> r.partition,
                                                offset |-> r.offset]))
      ELSE its

MapOkReordered(r, its) ==
    IF r.kind = "Item"
      THEN <<RdKafkaOwnedMessage_new([partition |-> r.partition, offset |-> r.offset])>> \o its
      ELSE its

\* map_ok: only Ready(Some(Ok(message))) is turned into an item, built from
\* the message just produced; every other result is passed through.
MapOk(r, its) ==
    IF r.kind = "Item"
      THEN Append(its, RdKafkaOwnedMessage_new([partition |-> r.partition,
                                                offset |-> r.offset]))
      ELSE its

poll_next ==
    /\ stream.pc = "live"
    /\ \E r \in InnerPoll :
         /\ items' = MapOk(r, items)
         /\ strong' = IF Len(MapOk(r, items)) > Len(items)
                        THEN ItemNewClones(strong) ELSE strong
         /\ fetched' = IF r.kind = "Item"
                         THEN [fetched EXCEPT ![r.partition] = @ + 1] ELSE fetched
         /\ delivered' = IF r.kind = "Item"
                           THEN Append(delivered, [partition |-> r.partition,
                                                   offset |-> r.offset])
                           ELSE delivered
         /\ exhausted' = (exhausted \/ r.kind = "None")
         /\ lastOp' = Op("poll_next", IF r.kind = "Item" THEN Len(items) + 1 ELSE 0, r.kind)
    /\ UNCHANGED <<bus, released, stream, pending, committed>>
    /\ UNCHANGED pvars

\* ------------------------------------------------------------------------ drop
\* impl Drop for RdKafkaMessageStream: which field each of the two
\* ManuallyDrop::drop statements releases.
StreamDropField(step) == IF step = 1 THEN "stream" ELSE "consumer"

ItemDropFieldReversed(step) == IF step = 1 THEN "consumer" ELSE "message"

\* impl Drop for RdKafkaOwnedMessage: which field each of the two
\* ManuallyDrop::drop statements releases.
ItemDropField(step) == IF step = 1 THEN "message" ELSE "consumer"

\* The wrapper w after the field f was released.
ReleaseField(w, f) == [w EXCEPT ![f] = FALSE]

\* First statement of RdKafkaMessageStream::drop. The stream can be dropped
\* whenever it exists; when its last poll returned Pending and nothing
\* happened since, the drop cancels a suspended poll (recorded in cancelled).
DropStreamFirst ==
    /\ stream.pc = "live"
    /\ LET f == StreamDropField(1) IN
         /\ stream' = [ReleaseField(stream, f) EXCEPT
                          !.pc = "dropping",
                          !.cancelled = (lastOp = Op("poll_next", 0, "Pending"))]
         /\ strong' = IF f = "consumer" THEN ArcDropCount(strong) ELSE strong
         /\ released' = released + (IF f = "consumer" THEN ArcDropReleases(strong) ELSE 0)
    /\ lastOp' = Op("drop_stream", 0, "-")
    /\ UNCHANGED <<bus, items, exhausted, fetched, delivered,
                   pending, committed>>
    /\ UNCHANGED pvars

\* Second statement of RdKafkaMessageStream::drop.
DropStreamSecond ==
    /\ stream.pc = "dropping"
    /\ LET f == StreamDropField(2) IN
         /\ stream' = [ReleaseField(stream, f) EXCEPT !.pc = "dropped"]
         /\ strong' = IF f = "consumer" THEN ArcDropCount(strong) ELSE strong
         /\ released' = released + (IF f = "consumer" THEN ArcDropReleases(strong) ELSE 0)
    /\ lastOp' = Op("drop_stream", 0, "-")
    /\ UNCHANGED <<bus, items, exhausted, fetched, delivered,
                   pending, committed>>
    /\ UNCHANGED pvars

ItemDropCommitsMessage(pend, it) ==
    Append(pend, [partition |-> it.msg.partition, offset |-> it.msg.offset + 1])

\* What dropping an item asks of the consumer's commit queue: nothing.
ItemDropCommits(pend, it) == pend

\* First statement of RdKafkaOwnedMessage::drop.
DropItemFirst(i) ==
    /\ items[i].pc = "live"
    /\ LET f == ItemDropField(1) IN
         /\ items' = [items EXCEPT ![i] = [ReleaseField(@, f) EXCEPT !.pc = "dropping"]]
         /\ strong' = IF f = "consumer" THEN ArcDropCount(strong) ELSE strong
         /\ released' = released + (IF f = "consumer" THEN ArcDropReleases(strong) ELSE 0)
    /\ pending' = ItemDropCommits(pending, items[i])
    /\ lastOp' = Op("drop_item", 0, "-")
    /\ UNCHANGED <<bus, stream, exhausted, fetched, delivered,
                   committed>>
    /\ UNCHANGED pvars

\* Second statement of RdKafkaOwnedMessage::drop.
DropItemSecond(i) ==
    /\ items[i].pc = "dropping"
    /\ LET f == ItemDropField(2) IN
         /\ items' = [items EXCEPT ![i] = [ReleaseField(@, f) EXCEPT !.pc = "dropped"]]
         /\ strong' = IF f = "consumer" THEN ArcDropCount(strong) ELSE strong
         /\ released' = released + (IF f = "consumer" THEN ArcDropReleases(strong) ELSE 0)
    /\ lastOp' = Op("drop_item", 0, "-")
    /\ UNCHANGED <<bus, stream, exhausted, fetched, delivered,
                   pending, committed>>
    /\ UNCHANGED pvars

\* ------------------------------------------------------- ack / nack / reject
commit_message_same_offset(pend, m, ok) ==
    IF ok
      THEN [res |-> "Ok",
            pending |-> Append(pend, [partition |-> m.partition, offset |-> m.offset])]
      ELSE [res |-> "Err", pending |-> pend]

\* Consumer::commit_message(&message, CommitMode::Async): on failure the
\* error is returned and nothing is requested; otherwise a commit of the
\* offset after the message is queued for the message's partition.
commit_message(pend, m, ok) ==
    IF ok
      THEN [res |-> "Ok",
            pending |-> Append(pend, [partition |-> m.partition, offset |-> m.offset + 1])]
      ELSE [res |-> "Err", pending |-> pend]

\* IncomingMessage::ack
AckEffect(pend, m, ok) == commit_message(pend, m, ok)

NackCommits(pend, m, ok) == commit_message(pend, m, ok)

\* IncomingMessage::nack
NackEffect(pend, m, ok) == [res |-> "Ok", pending |-> pend]

RejectDoesNothing(pend, m, ok) == [res |-> "Ok", pending |-> pend]

\* IncomingMessage::reject
RejectEffect(pend, m, ok) == commit_message(pend, m, ok)

UsableAnyTime(i) == TRUE

UsableInOrder(i) ==
    /\ items[i].pc = "live"
    /\ \A j \in 1 .. (i - 1) : items[j].acked

\* An item can be used through &self while it has not begun to drop.
Usable(i) == items[i].pc = "live"

\* One call on item i; acked remembers that an ack or a reject on the item
\* has returned Ok (history).
Call(i, name, eff) ==
    /\ pending' = eff.pending
    /\ items' = [items EXCEPT ![i].acked = @ \/ (name # "nack" /\ eff.res = "Ok")]
    /\ lastOp' = Op(name, i, eff.res)
    /\ UNCHANGED <<bus, strong, released, stream, exhausted, fetched, delivered,
                   committed>>
    /\ UNCHANGED pvars

ack(i) ==
    /\ Usable(i)
    /\ Len(pending) < MaxPending
    /\ \E ok \in BOOLEAN : Call(i, "ack", AckEffect(pending, items[i].msg, ok))

nack(i) ==
    /\ Usable(i)
    /\ \E ok \in BOOLEAN : Call(i, "nack", NackEffect(pending, items[i].msg, ok))

reject(i) ==
    /\ Usable(i)
    /\ Len(pending) < MaxPending
    /\ \E ok \in BOOLEAN : Call(i, "reject", RejectEffect(pending, items[i].msg, ok))

\* The backend carries out the oldest asynchronous commit request.
BackendCommitApplied ==
    /\ pending # << >>
    /\ committed' = [committed EXCEPT ![Head(pending).partition] = Head(pending).offset]
    /\ pending' = Tail(pending)
    /\ lastOp' = Op("backend_commit", 0, "Ok")
    /\ UNCHANGED <<bus, strong, released, stream, items, exhausted, fetched, delivered>>
    /\ UNCHANGED pvars

\* The oldest asynchronous commit request fails in the background; the
\* failure goes to the consumer context's callback, not to the caller of ack.
BackendCommitFailed ==
    /\ pending # << >>
    /\ pending' = Tail(pending)
    /\ lastOp' = Op("backend_commit", 0, "Err")
    /\ UNCHANGED <<bus, strong, released, stream, items, exhausted, fetched, delivered,
                   committed>>
    /\ UNCHANGED pvars

Next ==
    \/ into_stream
    \/ DropBus
    \/ poll_next
    \/ DropStreamFirst
    \/ DropStreamSecond
    \/ \E i \in ItemIds : DropItemFirst(i)
    \/ \E i \in ItemIds : DropItemSecond(i)
    \/ \E i \in ItemIds : ack(i)
    \/ \E i \in ItemIds : nack(i)
    \/ \E i \in ItemIds : reject(i)
    \/ BackendCommitApplied
    \/ BackendCommitFailed

\* ----------------------------------------------------------------- headers()
\* Header keys, texts (strings, as sequences of code points) and the byte
\* strings a raw header value may hold.
Keys == {"a", "b"}

Texts == {<<49>>, <<50>>, <<233>>}

ByteStrings == {<<111, 107>>, <<195, 169>>, <<255>>, <<195>>}

MaxRaw == 2             \* headers in the raw header list of a received message

\* str::as_bytes / String -> bytes: UTF-8 encoding (one- and two-byte forms).
RECURSIVE Utf8Encode(_)
Utf8Encode(t) ==
    IF t = << >> THEN << >>
    ELSE IF Head(t) < 128
      THEN <<Head(t)>> \o Utf8Encode(Tail(t))
      ELSE <<192 + (Head(t) \div 64), 128 + (Head(t) % 64)>> \o Utf8Encode(Tail(t))

\* std::str::from_utf8(value).ok(): the text of a byte string, or nothing
\* when the bytes are not valid UTF-8 (one- and two-byte forms).
RECURSIVE from_utf8(_)
from_utf8(b) ==
    IF b = << >> THEN [ok |-> TRUE, text |-> << >>]
    ELSE IF Head(b) < 128
      THEN LET r == from_utf8(Tail(b)) IN
           [ok |-> r.ok, text |-> <<Head(b)>> \o r.text]
    ELSE IF Head(b) \in 194 .. 223 /\ Len(b) >= 2 /\ b[2] \in 128 .. 191
      THEN LET r == from_utf8(Tail(Tail(b))) IN
           [ok |-> r.ok, text |-> <<(Head(b) - 192) * 64 + (b[2] - 128)>> \o r.text]
    ELSE [ok |-> FALSE, text |-> << >>]

NoValue == [present |-> FALSE, bytes |-> << >>]

SomeValue(b) == [present |-> TRUE, bytes |-> b]

\* A raw header as rdkafka gives it: a key and an optional byte value.
RawHeader(k, v) == [key |-> k, value |-> v]

NoSection == [present |-> FALSE, list |-> << >>]

Section(l) == [present |-> TRUE, list |-> l]

\* RawHeaders::insert: the mapping m with key k set to text v.
Insert(m, k, v) == [x \in (DOMAIN m) \cup {k} |-> IF x = k THEN v ELSE m[x]]

EmptyHeaders == [x \in {} |-> << >>]

\* A filter that keeps every header that has a value.
KeepHeaderWithValue(h) == h.value.present

\* The filter_map closure of headers(): a header without a value, or with a
\* value that is not valid text, gives nothing.
KeepHeader(h) == h.value.present /\ from_utf8(h.value.bytes).ok

\* .collect::<RawHeaders>(): the kept headers are inserted in list order.
RECURSIVE Collect(_, _)
Collect(l, m) ==
    IF l = << >> THEN m
    ELSE IF KeepHeader(Head(l))
      THEN Collect(Tail(l), Insert(m, Head(l).key, from_utf8(Head(l).value.bytes).text))
      ELSE Collect(Tail(l), m)

\* IncomingMessage::headers: unwrap_or_default gives the empty mapping for a
\* message without a headers section.
headers(sec) == IF sec.present THEN Collect(sec.list, EmptyHeaders) ELSE EmptyHeaders

\* headers() is called on the item that carries the received message.
CallHeaders ==
    /\ rawHeaders' = [called |-> TRUE, map |-> headers(received)]
    /\ UNCHANGED <<producer, sending, sendResult, span, received>>
    /\ UNCHANGED cvars

Idle == [pc |-> "idle", earlier |-> FALSE]

NotCalled == [called |-> FALSE, map |-> EmptyHeaders]

\* The producer side at rest.
ProducerInit ==
    /\ producer = [topic |-> "orders"]
    /\ sending = Idle
    /\ sendResult = "-"
    /\ span = [made |-> FALSE]
    /\ received = NoSection
    /\ rawHeaders = NotCalled

Init == ConsumerInit /\ ProducerInit

Spec == Init /\ [][Next]_vars

\* -------------------------------------------- headers() on any received message
RawValues == {NoValue} \cup {SomeValue(b) : b \in ByteStrings}

RawHeaderSet == {RawHeader(k, v) : k \in Keys, v \in RawValues}

RECURSIVE ListsUpTo(_, _)
ListsUpTo(S, n) ==
    IF n = 0 THEN {<< >>}
    ELSE LET shorter == ListsUpTo(S, n - 1) IN
         shorter \cup {Append(l, x) : l \in {y \in shorter : Len(y) = n - 1}, x \in S}

\* Any message: no headers section, or a list of up to MaxRaw raw headers.
HeadersInit ==
    /\ ConsumerInit
    /\ ProducerInit!1 /\ ProducerInit!2 /\ ProducerInit!3 /\ ProducerInit!4
    /\ received \in {NoSection} \cup {Section(l) : l \in ListsUpTo(RawHeaderSet, MaxRaw)}
    /\ rawHeaders = NotCalled

HeadersNext == CallHeaders

SpecHeaders == HeadersInit /\ [][HeadersNext]_vars

\* ------------------------------------------------------------------ producer
Topics == {"orders", "orders-retry"}

MsgKeys == {"k1"}

Payloads == {"p1"}

SendTimeout == 10       \* Duration::from_secs(10)

MaxBuilderCalls == 2    \* builder calls that make one options value

\* Every header mapping: some of the keys, each with a text.
HeaderMaps == UNION {[S -> Texts] : S \in SUBSET Keys}

None == [some |-> FALSE, topic |-> ""]

Some(t) == [some |-> TRUE, topic |-> t]

\* KafkaProducerOptions::default()
DefaultOptions == [topic_override |-> None, additional_headers |-> EmptyHeaders]

override_topic(o, t) == [o EXCEPT !.topic_override = Some(t)]

add_header(o, k, v) == [o EXCEPT !.additional_headers = Insert(@, k, v)]

\* The options values that n builder calls can make.
RECURSIVE Built(_)
Built(n) ==
    IF n = 0 THEN {DefaultOptions}
    ELSE LET b == Built(n - 1) IN
         b \cup {override_topic(o, t) : o \in b, t \in Topics}
           \cup {add_header(o, k, v) : o \in b, k \in Keys, v \in Texts}

OptionsSet == Built(MaxBuilderCalls)

\* RawHeaders::extend where the base mapping wins a key collision.
ExtendKeepsBase(h, more) ==
    [k \in (DOMAIN h) \cup (DOMAIN more) |-> IF k \in DOMAIN h THEN h[k] ELSE more[k]]

\* headers.extend(additional_headers): every entry of `more` is inserted
\* into h, replacing the entry of a key h already has.
Extend(h, more) ==
    [k \in (DOMAIN h) \cup (DOMAIN more) |-> IF k \in DOMAIN more THEN more[k] ELSE h[k]]

\* A resolution that ignores the override.
SendTopicDefaultOnly(o, p) == p.topic

\* topic_override.as_deref().unwrap_or(self.topic.as_str()) in send
SendTopic(o, p) == IF o.topic_override.some THEN o.topic_override.topic ELSE p.topic

\* the same expression in make_span
SpanTopic(o, p) == IF o.topic_override.some THEN o.topic_override.topic ELSE p.topic

\* A header whose value is written one byte per code point.
OwnedHeaderOneByte(k, v) == RawHeader(k, SomeValue(v))

\* rdkafka::message::Header { key: &key, value: Some(&value) }: the value is
\* present and holds the bytes of the text.
OwnedHeader(k, v) == RawHeader(k, SomeValue(Utf8Encode(v)))

\* The orders in which headers.into_iter() can visit the keys of a mapping.
Orders(m) == {o \in ListsUpTo(DOMAIN m, Cardinality(DOMAIN m)) :
                Len(o) = Cardinality(DOMAIN m) /\ {o[i] : i \in 1 .. Len(o)} = DOMAIN m}

\* The fold into OwnedHeaders: one header per entry, in iteration order.
OwnedHeadersOf(m, order) == [i \in 1 .. Len(order) |-> OwnedHeader(order[i], m[order[i]])]

\* FutureRecord::to(topic).key(&key).headers(headers).payload(&payload)
FutureRecord(t, k, h, pl) == [topic |-> t, key |-> k, headers |-> h, payload |-> pl]

\* A send that leaves the topic it resolved in the producer.
ProducerKeepsOverride(p, o) == [p EXCEPT !.topic = SendTopic(o, p)]

\* send takes &self: the producer is the same value after the call.
ProducerAfterSend(p, o) == p

Active == sending.pc \in {"queueing", "delivery"}

\* send, up to the call of FutureProducer::send: the headers are merged, the
\* topic is resolved and the record is built and handed to the producer,
\* which first waits for room in its queue.
send ==
    /\ sending.pc = "idle"
    /\ \E key \in MsgKeys, h \in HeaderMaps, pl \in Payloads, options \in OptionsSet :
         LET merged == Extend(h, options.additional_headers)
             topic  == SendTopic(options, producer)
         IN \E order \in Orders(merged) :
              /\ sending' = [pc |-> "queueing", key |-> key, headers |-> h,
                             options |-> options, merged |-> merged,
                             record |-> FutureRecord(topic, key,
                                           OwnedHeadersOf(merged, order), pl),
                             elapsed |-> 0,
                             earlier |-> sending.earlier]
              /\ producer' = ProducerAfterSend(producer, options)
    /\ UNCHANGED <<sendResult, span, received, rawHeaders>>
    /\ UNCHANGED cvars

\* One second passes while the call is suspended. Waiting for room in the
\* queue ends at SendTimeout; waiting for the delivery report does not.
Tick ==
    /\ Active
    /\ sending.elapsed < (IF sending.pc = "queueing" THEN SendTimeout ELSE SendTimeout + 1)
    /\ sending' = [sending EXCEPT !.elapsed = @ + 1]
    /\ UNCHANGED <<producer, sendResult, span, received, rawHeaders>>
    /\ UNCHANGED cvars

\* The producer's queue had room within the time given to
\* FutureProducer::send: the record is queued and the call awaits its
\* delivery report.
Enqueued ==
    /\ sending.pc = "queueing"
    /\ sending' = [sending EXCEPT !.pc = "delivery"]
    /\ UNCHANGED <<producer, sendResult, span, received, rawHeaders>>
    /\ UNCHANGED cvars

Return(res) ==
    /\ sending' = [sending EXCEPT !.pc = "returned", !.elapsed = 0]
    /\ sendResult' = res

\* The queue stayed full for SendTimeout: FutureProducer::send gives up and
\* send returns its error, .map_err(|err| err.0).
QueueFull ==
    /\ sending.pc = "queueing"
    /\ sending.elapsed = SendTimeout
    /\ Return("Err(QueueFull)")
    /\ UNCHANGED <<producer, span, received, rawHeaders>>
    /\ UNCHANGED cvars

\* The delivery report says the message was written: send returns Ok(()),
\* .map(|_| ()), and the message can be received with the record's headers
\* (a record without headers arrives with an empty section or with none).
DeliveryOk ==
    /\ sending.pc = "delivery"
    /\ Return("Ok(())")
    /\ \E sec \in {Section(sending.record.headers)} \cup
                  (IF sending.record.headers = << >> THEN {NoSection} ELSE {}) :
         received' = sec
    /\ UNCHANGED <<producer, span, rawHeaders>>
    /\ UNCHANGED cvars

\* The delivery report carries an error: send returns it.
DeliveryFailed ==
    /\ sending.pc = "delivery"
    /\ \E e \in {"Err(MessageTimedOut)", "Err(Transport)"} : Return(e)
    /\ UNCHANGED <<producer, span, received, rawHeaders>>
    /\ UNCHANGED cvars

\* Producer::make_span reads the key and the topic override of the options.
make_span ==
    /\ sending.pc = "idle"
    /\ \E key \in MsgKeys, options \in OptionsSet :
         span' = [made |-> TRUE, key |-> key,
                  topic_override |-> options.topic_override,
                  destination |-> SpanTopic(options, producer)]
    /\ UNCHANGED <<producer, sending, sendResult, received, rawHeaders>>
    /\ UNCHANGED cvars

\* headers() on the item that carries the message a send wrote.
ReceivedHeaders == sendResult = "Ok(())" /\ CallHeaders

\* The call is over: its result and the message it wrote are looked at no
\* more. The next call follows a call with options of its own if this one, or
\* one before it, had any.
SendOver ==
    /\ sending.pc = "returned"
    /\ sending' = [pc |-> "idle",
                   earlier |-> (sending.earlier \/ sending.options # DefaultOptions)]
    /\ sendResult' = "-"
    /\ received' = NoSection
    /\ rawHeaders' = NotCalled
    /\ UNCHANGED <<producer, span>>
    /\ UNCHANGED cvars

\* KafkaProducer::new(producer, topic), with any topic.
SendInit ==
    /\ ConsumerInit
    /\ producer \in {[topic |-> t] : t \in Topics}
    /\ ProducerInit!2 /\ ProducerInit!3 /\ ProducerInit!4
    /\ ProducerInit!5 /\ ProducerInit!6

SendNext ==
    \/ send
    \/ Tick
    \/ Enqueued
    \/ QueueFull
    \/ DeliveryOk
    \/ DeliveryFailed
    \/ make_span
    \/ ReceivedHeaders
    \/ SendOver

SpecSend == SendInit /\ [][SendNext]_vars

\* ===================================================================== claims
Last(q) == q[Len(q)]

MsgOf(i) == items[i].msg

\* The commit request that acknowledges the message of item i.
RequestOf(i) == [partition |-> MsgOf(i).partition, offset |-> MsgOf(i).offset + 1]

\* Wrappers that hold a clone of the consumer handle (the bus included).
Holders ==
    (IF bus = "constructed" THEN 1 ELSE 0)
    + (IF stream.consumer THEN 1 ELSE 0)
    + Cardinality({i \in ItemIds : items[i].consumer})

\* C1: In every reachable state, no wrapper (stream or item) has released its
\* consumer-handle clone while its borrowed component (the stream, the
\* message) is still live: drop releases the component strictly first.
C1_ComponentBeforeHandle ==
    /\ stream.stream => stream.consumer
    /\ \A i \in ItemIds : items[i].message => items[i].consumer

\* C1 witness: the stream, dropped while its poll was suspended, and an item
\* are both between the two statements of their drop.
C1_Witness ==
    /\ stream.pc = "dropping" /\ ~stream.stream /\ stream.consumer /\ stream.cancelled
    /\ \E i \in ItemIds : items[i].pc = "dropping" /\ ~items[i].message /\ items[i].consumer

\* C2: The consumer resource is live exactly as long as some holder of its
\* handle exists; it is released only when the last holder goes, and no
\* borrowed stream or message component is live, or has just been used by
\* poll_next, ack, nack or reject, once it is released.
C2_ResourceOutlivesHolders ==
    /\ (released = 0) <=> (Holders > 0)
    /\ strong = Holders
    /\ (stream.stream \/ \E i \in ItemIds : items[i].message) => released = 0
    /\ lastOp.op \in {"poll_next", "ack", "nack", "reject"} => released = 0

\* C2 witness: an item outlives the stream it came from, after another item
\* was dropped, and the resource is still live.
C2_Witness ==
    /\ stream.pc = "dropped"
    /\ released = 0
    /\ \E i, j \in ItemIds : items[i].pc = "live" /\ items[j].pc = "dropped"

\* C3: A nack() step returns Ok and leaves the committed offsets, the commit
\* requests in flight and the handle count as they were.
C3_NackChangesNothing ==
    [][lastOp'.op = "nack" =>
          /\ lastOp'.res = "Ok"
          /\ committed' = committed
          /\ pending' = pending
          /\ strong' = strong /\ released' = released]_vars

\* C3 witness: a nack has just returned on a resource whose committed offset
\* is no longer the initial one.
C3_Witness ==
    /\ lastOp.op = "nack"
    /\ \E p \in Partitions : committed[p] > 0

\* C4 (as claimed): once ack() or reject() has returned Ok for a message at
\* offset o, the committed offset of its partition is greater than o.
C4_CommittedOnReturn ==
    (lastOp.op \in {"ack", "reject"} /\ lastOp.res = "Ok") =>
        committed[MsgOf(lastOp.item).partition] > MsgOf(lastOp.item).offset

\* C4 (amended): a successful ack() or reject() on a message at offset o
\* queues one commit request for its partition with an offset greater than o
\* (o + 1) and leaves the committed offsets alone; the committed offset of a
\* partition becomes the requested one when the backend applies the request.
C4_AckRequestsCommitPast ==
    [][/\ (lastOp'.op \in {"ack", "reject"} /\ lastOp'.res = "Ok") =>
            /\ pending' = Append(pending, Last(pending'))
            /\ Last(pending').partition = MsgOf(lastOp'.item).partition
            /\ Last(pending').offset > MsgOf(lastOp'.item).offset
            /\ Last(pending').offset = MsgOf(lastOp'.item).offset + 1
            /\ committed' = committed
       /\ (lastOp' = Op("backend_commit", 0, "Ok")) =>
            /\ pending # << >>
            /\ committed'[Head(pending).partition] = Head(pending).offset
            /\ \A p \in Partitions \ {Head(pending).partition} :
                   committed'[p] = committed[p]]_vars

\* C4 witness: the backend has applied the request of an acknowledged item
\* and the committed offset is past that item's message.
C4_Witness ==
    /\ lastOp = Op("backend_commit", 0, "Ok")
    /\ \E i \in ItemIds :
         items[i].acked /\ committed[MsgOf(i).partition] = RequestOf(i).offset

\* C5: every reject() step returns the value and leaves the commit queue
\* that ack() on the same item gives from the same state with the same
\* backend outcome, and every ack() step does what reject() gives.
C5_RejectSameAsAck ==
    [][/\ lastOp'.op = "reject" =>
            LET e == AckEffect(pending, MsgOf(lastOp'.item), lastOp'.res = "Ok") IN
              /\ lastOp'.res = e.res
              /\ pending' = e.pending
              /\ committed' = committed
       /\ lastOp'.op = "ack" =>
            LET e == RejectEffect(pending, MsgOf(lastOp'.item), lastOp'.res = "Ok") IN
              /\ lastOp'.res = e.res
              /\ pending' = e.pending
              /\ committed' = committed]_vars

\* C5 witness: a reject has returned Ok and its commit request is in flight.
C5_Witness ==
    /\ lastOp.op = "reject" /\ lastOp.res = "Ok"
    /\ pending # << >>
    /\ Last(pending) = RequestOf(lastOp.item)

\* C6: no statement of the drop of a stream, an item or the bus changes the
\* committed offsets or queues a commit request.
C6_DropAcknowledgesNothing ==
    [][lastOp'.op \in {"drop_item", "drop_stream", "drop_bus"} =>
          /\ committed' = committed
          /\ pending' = pending]_vars

\* C6 witness: an item on which neither ack nor reject succeeded has just
\* been dropped while the acknowledgement of another item was in flight,
\* after the stream was dropped with its poll suspended; nothing of the
\* dropped item's partition is committed.
C6_Witness ==
    /\ lastOp.op = "drop_item"
    /\ stream.cancelled
    /\ pending # << >>
    /\ \E i \in ItemIds :
         /\ items[i].pc = "dropped" /\ ~items[i].acked
         /\ \A j \in ItemIds \ {i} : items[j].pc = "live"
         /\ committed[MsgOf(i).partition] = 0

\* C7 (as claimed): once poll_next has returned Ready(None) or an error, no
\* later poll_next yields an item; in particular the poll_next that follows
\* it does not.
C7_TerminalYieldsNoItem ==
    [][(lastOp.op = "poll_next" /\ lastOp.res \in {"None", "Err"})
         => ~(lastOp'.op = "poll_next" /\ lastOp'.res = "Item")]_vars

\* C8: the messages of the yielded items, in yield order, are exactly the
\* messages the underlying stream handed out, in the same order.
C8_YieldedAsDelivered ==
    /\ Len(items) = Len(delivered)
    /\ \A k \in 1 .. Len(delivered) : items[k].msg = delivered[k]

\* C8 witness: two different messages have been yielded, and then an error
\* result.
C8_Witness ==
    /\ Len(items) >= 2
    /\ items[1].msg # items[2].msg
    /\ lastOp = Op("poll_next", 0, "Err")

\* C9 (as claimed): once ack() or reject() has succeeded on a message and
\* the committed offset of its partition is past it, the committed offset
\* stays past that message whatever is acknowledged afterwards.
C9_AckedStaysCommitted ==
    [][\A i \in ItemIds :
          (items[i].acked /\ committed[MsgOf(i).partition] > MsgOf(i).offset)
              => committed'[MsgOf(i).partition] > MsgOf(i).offset]_vars

AckOk(i) == ack(i) /\ lastOp'.res = "Ok"

RejectOk(i) == reject(i) /\ lastOp'.res = "Ok"

C15_FailuresReturned ==
    [][/\ (lastOp'.op \in {"ack", "reject"} /\ pending' = pending) => lastOp'.res = "Err"
       /\ ~(lastOp' = Op("backend_commit", 0, "Err"))]_vars

\* C17: a poll_next that yields a message appends exactly one item, which
\* holds the message just handed out and its own handle clone, and the number
\* of holders and the strong count grow by one; any other poll_next (Pending,
\* end of stream, error) leaves the items and the holders as they were.
C17_OneItemPerMessage ==
    [][lastOp'.op = "poll_next" =>
          IF lastOp'.res = "Item"
            THEN /\ Len(items') = Len(items) + 1
                 /\ \A j \in ItemIds : items'[j] = items[j]
                 /\ lastOp'.item = Len(items')
                 /\ Last(items').msg = Last(delivered')
                 /\ Last(items').message /\ Last(items').consumer
                 /\ stream.consumer /\ stream'.consumer
                 /\ Holders' = Holders + 1
                 /\ strong' = strong + 1
            ELSE /\ items' = items
                 /\ Holders' = Holders
                 /\ strong' = strong]_vars

\* C17 witness: the second item has just been yielded; the stream and both
\* items hold the handle.
C17_Witness ==
    /\ lastOp = Op("poll_next", 2, "Item")
    /\ Len(items) = 2
    /\ Holders = 3

\* C18: the strong count never goes below zero and the resource is never
\* released twice; right after into_stream the bus is consumed and the stream
\* is the only holder; once the stream and every item it yielded are dropped,
\* no holder is left and the resource has been released exactly once.
C18_NoLeakNoDoubleRelease ==
    /\ strong >= 0
    /\ released <= 1
    /\ lastOp.op = "into_stream" =>
          /\ bus = "consumed"
          /\ strong = 1 /\ Holders = 1 /\ stream.consumer
    /\ (stream.pc = "dropped" /\ \A i \in ItemIds : items[i].pc = "dropped") =>
          /\ Holders = 0 /\ strong = 0
          /\ released = 1

\* C18 witness: the stream was dropped first and two items after it; the
\* last of them released the resource.
C18_Witness ==
    /\ lastOp.op = "drop_item"
    /\ stream.pc = "dropped"
    /\ Len(items) = 2
    /\ \A i \in ItemIds : items[i].pc = "dropped"
    /\ released = 1

\* ------------------------------------------------------------------ headers()
\* The texts a header value can be checked against: code point strings of
\* length one or two.
CodePoints == {49, 50, 107, 111, 233}

KnownTexts == ListsUpTo(CodePoints, 2) \ {<< >>}

\* The raw value v is present and is the encoding of some text.
IsText(v) == v.present /\ \E t \in KnownTexts : Utf8Encode(t) = v.bytes

HeaderList == received.list

\* The positions of the raw headers with key k whose value is valid text.
ValidAt(k) == {i \in 1 .. Len(HeaderList) :
                 HeaderList[i].key = k /\ IsText(HeaderList[i].value)}

Max(S) == CHOOSE x \in S : \A y \in S : y <= x

\* C16 as stated: headers() has an entry for each raw header whose value is
\* present and valid text, with the header's key and value unchanged, has no
\* entry for a header whose value is absent or not valid text, and is empty
\* for a message without a headers section.
C16_EveryValidHeaderKept ==
    rawHeaders.called =>
      /\ \A i \in 1 .. Len(HeaderList) :
           IF IsText(HeaderList[i].value)
             THEN /\ HeaderList[i].key \in DOMAIN rawHeaders.map
                  /\ Utf8Encode(rawHeaders.map[HeaderList[i].key]) = HeaderList[i].value.bytes
             ELSE HeaderList[i].key \notin DOMAIN rawHeaders.map
      /\ ~received.present => rawHeaders.map = EmptyHeaders

\* C16 amended: headers() has an entry exactly for the keys that have a raw
\* header with a present, valid text value, and the entry holds the value of
\* the last such header of that key, unchanged; a message without a headers
\* section gives the empty mapping.
C16_LastValidHeaderKept ==
    rawHeaders.called =>
      /\ DOMAIN rawHeaders.map = {k \in Keys : ValidAt(k) # {}}
      /\ \A k \in DOMAIN rawHeaders.map :
           Utf8Encode(rawHeaders.map[k]) = HeaderList[Max(ValidAt(k))].value.bytes
      /\ ~received.present => rawHeaders.map = EmptyHeaders

\* headers() was called on a message with two valid headers of one key.
C16_Witness ==
    /\ rawHeaders.called
    /\ \E k \in Keys :
         /\ Cardinality(ValidAt(k)) = 2
         /\ HeaderList[1].value # HeaderList[2].value
         /\ k \in DOMAIN rawHeaders.map


\* ------------------------------------------------------------------- producer
Called == sending.pc # "idle"

Dispatched == sending.record.headers

\* The text of key k in the mapping the caller of send intends: the value of
\* the options when they have the key, the base value otherwise.
Intended(k) ==
    IF k \in DOMAIN sending.options.additional_headers
      THEN sending.options.additional_headers[k]
      ELSE sending.headers[k]

\* C12: the headers dispatched with a message are exactly the additional
\* headers of the options together with the base headers whose key the
\* options do not have: one header for each such key, none lost, none added.
C12_OptionsHeadersWin ==
    Called =>
      LET all == (DOMAIN sending.headers) \cup (DOMAIN sending.options.additional_headers) IN
      /\ Len(Dispatched) = Cardinality(all)
      /\ {Dispatched[i].key : i \in 1 .. Len(Dispatched)} = all
      /\ \A i \in 1 .. Len(Dispatched) :
           Dispatched[i].value = SomeValue(Utf8Encode(Intended(Dispatched[i].key)))

\* A send with base {"a": "1"} and additional {"a": "2", "b": "e-acute"}.
C12_Witness ==
    /\ Called
    /\ sending.headers = [k \in {"a"} |-> <<49>>]
    /\ sending.options.additional_headers =
         [k \in {"a", "b"} |-> IF k = "a" THEN <<50>> ELSE <<233>>]
    /\ \E i \in 1 .. 2 : Dispatched[i] = RawHeader("a", SomeValue(<<50>>))

\* The destination the caller intends with a topic override ov.
Effective(ov) == IF ov.some THEN ov.topic ELSE producer.topic

\* C13: send dispatches to the topic override of its options when there is
\* one and to the producer's configured topic otherwise, and make_span
\* resolves that same destination for the same producer and options.
C13_EffectiveDestination ==
    /\ Called => sending.record.topic = Effective(sending.options.topic_override)
    /\ span.made => span.destination = Effective(span.topic_override)
    /\ (Called /\ span.made /\ span.topic_override = sending.options.topic_override)
         => span.destination = sending.record.topic

\* A producer configured with "orders" made a span for, and then sent with,
\* the override "orders-retry".
C13_Witness ==
    /\ Called
    /\ producer.topic = "orders"
    /\ sending.options.topic_override = Some("orders-retry")
    /\ sending.record.topic = "orders-retry"
    /\ span.made
    /\ span.topic_override = sending.options.topic_override

\* C14: a send that is not confirmed within the configured timeout returns
\* to its caller: no call is still suspended once more than SendTimeout
\* seconds have passed since it was made.
C14_ReturnsWithinTimeout == Active => sending.elapsed <= SendTimeout

\* C19: send leaves the producer's configured topic as it was, and a send
\* with default options dispatches to that topic with exactly the base
\* headers passed to it, whatever the options of the sends before it.
C19_OptionsAffectOnlyTheirCall ==
    [][/\ producer' = producer
       /\ (sending.pc = "idle" /\ sending'.pc = "queueing" /\
             sending'.options = DefaultOptions)
            => /\ sending'.record.topic = producer.topic
               /\ Len(sending'.record.headers) = Cardinality(DOMAIN sending'.headers)
               /\ \A k \in DOMAIN sending'.headers :
                    \E i \in 1 .. Len(sending'.record.headers) :
                      sending'.record.headers[i] =
                        RawHeader(k, SomeValue(Utf8Encode(sending'.headers[k])))]_vars

\* A send with default options and some base headers, made after a send
\* that had options of its own.
C19_Witness ==
    /\ sending.pc = "queueing"
    /\ sending.earlier
    /\ sending.options = DefaultOptions
    /\ sending.headers # EmptyHeaders
    /\ sending.record.topic = producer.topic

\* C20: headers() on the item that carries the message a send wrote
\* returns exactly the merged mapping that send dispatched.
C20_HeadersRoundTrip == rawHeaders.called => rawHeaders.map = sending.merged

\* headers() returned two entries, one of them a text outside ASCII.
C20_Witness ==
    /\ rawHeaders.called
    /\ DOMAIN rawHeaders.map = {"a", "b"}
    /\ rawHeaders.map["a"] = <<233>>
    /\ sending.options.additional_headers # EmptyHeaders

====
